---- MODULE Spec2Model ----
(***************************************************************************)
(* The hash-chained ledger of src/app.py: class Blockchain (the chain, the *)
(* pending-transaction buffer, sealing, canonical hashing, validation, the *)
(* tamper probe) and the session initialisation of the Streamlit script.   *)
(*                                                                         *)
(* Representation of Python values:                                        *)
(*   - a str holding a digest is a tuple: the sentinel "1" is <<"1">>, a   *)
(*     SHA-256 hex digest is <<"sha256", bytes>> (an injective, symbolic   *)
(*     digest: no collisions), None and "" are <<>> (both falsy);          *)
(*   - a dict is a record; a list is a sequence;                           *)
(*   - an amount is <<type, value>>, so that a number json cannot encode   *)
(*     (decimal.Decimal) is distinguishable from a float.                  *)
(***************************************************************************)
EXTENDS Integers, Sequences, FiniteSets, TLC

\* ------------------------------------------------------------------ bounds
MaxChain == 3        \* blocks in the chain, genesis included
MaxAppended == 3     \* new_transaction calls in one behaviour
MaxThreadAppended == 2   \* new_transaction calls beside the other threads

\* ------------------------------------------------------------------ inputs
Senders == {"A"}
Recipients == {"B"}
Amounts == {<<"float", 10>>, <<"float", 25>>, <<"Decimal", 10>>}
Proofs == {7, 123}
Timestamps == {1}

GenesisProof == 100
Sentinel == <<"1">>
None == <<>>

VARIABLES chain, pending_transactions, session_state, appended, op, err, ret,
          args, hints, sealer, validator
vars == <<chain, pending_transactions, session_state, appended, op, err, ret,
          args, hints, sealer, validator>>

\* the frames of a new_block call and of an is_chain_valid call that are
\* under way in threads of their own
threads == <<sealer, validator>>
SealerIdle == [pc |-> "idle", block |-> None]
ValidatorIdle == [pc |-> "idle", i |-> 0, n |-> 0]

\* ------------------------------------------------- json.dumps and hashing
\* Python truthiness of the previous_hash argument: None and "" are falsy.
Truthy(s) == s # <<>>

\* sort_keys=True: the keys of a dict in lexicographic order.
KeyOrder ==
    <<"amount", "hash", "index", "previous_hash", "proof",
      "recipient", "sender", "timestamp", "transactions">>

SortedKeys(d) == SelectSeq(KeyOrder, LAMBDA k : k \in DOMAIN d)

\* json can encode a float amount, not a Decimal one (TypeError).
AmountEncodable(a) == a[1] = "float"

TxEncodable(tx) == AmountEncodable(tx.amount)

\* json.dumps raises on a block holding a value it cannot encode.
JsonEncodable(block) ==
    \A i \in 1..Len(block.transactions) : TxEncodable(block.transactions[i])

\* json.dumps(tx, sort_keys=True) of one transaction dict.
dumps_tx(tx) ==
    LET ks == SortedKeys(tx) IN [i \in 1..Len(ks) |-> <<ks[i], tx[ks[i]]>>]

\* json.dumps(d, sort_keys=True) of a block dict.
json_dumps(d) ==
    LET ks == SortedKeys(d)
        val(k) == IF k = "transactions"
                  THEN [j \in 1..Len(d[k]) |-> dumps_tx(d[k][j])]
                  ELSE d[k]
    IN [i \in 1..Len(ks) |-> <<ks[i], val(ks[i])>>]

\* hashlib.sha256(bytes).hexdigest(), collision-free.
sha256(bytes) == <<"sha256", bytes>>

\* variant: the stored hash is left in the copy that is serialised
pop_hash_kept(block) == block

\* block_copy = block.copy(); block_copy.pop("hash", None)
pop_hash(block) == [k \in (DOMAIN block) \ {"hash"} |-> block[k]]

\* Blockchain.hash (defined where json.dumps does not raise).
hash(block) == sha256(json_dumps(pop_hash(block)))

\* variant: the hash key is popped from the caller's dict
hash_leaves_popped(block) == pop_hash(block)

\* the dict handed to Blockchain.hash, as the call leaves it: line 39 copies
\* it and line 40 pops from the copy
hash_leaves(block) == block

\* the chain after Blockchain.hash has been called on the blocks at the
\* positions in S
hashed_in_place(c, S) ==
    [i \in 1..Len(c) |-> IF i \in S THEN hash_leaves(c[i]) ELSE c[i]]

\* ----------------------------------------------------------- new_block
\* variant: the snapshot is taken in reverse order
block_transactions_reversed(p) == [i \in 1..Len(p) |-> p[Len(p) + 1 - i]]

\* block_transactions = [tx.copy() for tx in self.pending_transactions]
block_transactions(p) == [i \in 1..Len(p) |-> p[i]]

\* variant: every block is linked to the sentinel
link_sentinel(c, previous_hash) ==
    IF Truthy(previous_hash) THEN previous_hash ELSE Sentinel

\* previous_hash or self.hash(self.chain[-1])
link(c, previous_hash) ==
    IF Truthy(previous_hash) THEN previous_hash ELSE hash(c[Len(c)])

\* variant: 0-based index
candidate_index0(c, p, proof, previous_hash, ts) ==
    [index |-> Len(c),
     timestamp |-> ts,
     transactions |-> block_transactions(p),
     proof |-> proof,
     previous_hash |-> link(c, previous_hash)]

\* the block dict of lines 20-26, before its hash is stored
candidate(c, p, proof, previous_hash, ts) ==
    [index |-> Len(c) + 1,
     timestamp |-> ts,
     transactions |-> block_transactions(p),
     proof |-> proof,
     previous_hash |-> link(c, previous_hash)]

\* variant: the hash is taken before the transactions are in the block
store_hash_early(block) ==
    [k \in (DOMAIN block) \cup {"hash"} |->
        IF k = "hash" THEN hash([block EXCEPT !.transactions = <<>>])
        ELSE block[k]]

\* block["hash"] = self.hash(block)
store_hash(block) ==
    [k \in (DOMAIN block) \cup {"hash"} |->
        IF k = "hash" THEN hash(block) ELSE block[k]]

\* variant: on an empty chain a block linked to the sentinel is built
new_block_genesis_like(c, p, proof, previous_hash, ts) ==
    LET ph == IF ~Truthy(previous_hash) /\ c = <<>>
              THEN Sentinel ELSE previous_hash
        block == candidate(c, p, proof, ph, ts)
    IN IF ~JsonEncodable(block)
       THEN [chain |-> c, pending_transactions |-> <<>>,
             err |-> "TypeError", ret |-> None]
       ELSE [chain |-> Append(c, store_hash(block)),
             pending_transactions |-> <<>>,
             err |-> "none", ret |-> store_hash(block)]

\* Blockchain.new_block as a function of the ledger state and its inputs:
\* the ledger after the call, the exception that escaped and the value
\* returned.
new_block(c, p, proof, previous_hash, ts) ==
    IF ~Truthy(previous_hash) /\ c = <<>>
    THEN \* self.chain[-1] on an empty list, line 25
         [chain |-> c, pending_transactions |-> p, err |-> "IndexError", ret |-> None]
    ELSE IF ~Truthy(previous_hash) /\ ~JsonEncodable(c[Len(c)])
    THEN \* self.hash(self.chain[-1]) raises, line 25
         [chain |-> c, pending_transactions |-> p, err |-> "TypeError", ret |-> None]
    ELSE LET block == candidate(c, p, proof, previous_hash, ts) IN
         IF ~JsonEncodable(block)
         THEN \* self.hash(block) raises, line 28, after line 27
              [chain |-> c, pending_transactions |-> <<>>,
               err |-> "TypeError", ret |-> None]
         ELSE [chain |-> Append(c, store_hash(block)), pending_transactions |-> <<>>,
               err |-> "none", ret |-> store_hash(block)]

\* ------------------------------------------------------ other methods
last_block(c) == c[Len(c)]

\* variant: the transaction is inserted at the front of the buffer
new_transaction_front(c, p, sender, recipient, amount) ==
    [pending_transactions |-> <<[sender |-> sender, recipient |-> recipient,
                                 amount |-> amount]>> \o p,
     err |-> "none",
     ret |-> last_block(c).index + 1]

\* variant: the index of the last block is returned
new_transaction_last(c, p, sender, recipient, amount) ==
    [pending_transactions |-> Append(p, [sender |-> sender, recipient |-> recipient,
                            amount |-> amount]),
     err |-> "none",
     ret |-> last_block(c).index]

\* Blockchain.new_transaction: the buffer after the call, the exception that
\* escaped (self.chain[-1] on an empty list, line 35, after the append of
\* line 34) and the return
new_transaction(c, p, sender, recipient, amount) ==
    [pending_transactions |-> Append(p, [sender |-> sender, recipient |-> recipient,
                            amount |-> amount]),
     err |-> IF c = <<>> THEN "IndexError" ELSE "none",
     ret |-> IF c = <<>> THEN None ELSE last_block(c).index + 1]

\* variant: index 0 is accepted
simulate_tamper_zero(c, index) ==
    IF 0 <= index /\ index <= Len(c) THEN TRUE ELSE FALSE

simulate_tamper(c, index) == IF 0 < index /\ index <= Len(c) THEN TRUE ELSE FALSE

\* variant: the stored hash is not compared with the recomputed one
RECURSIVE valid_from_link_only(_, _)
valid_from_link_only(c, i) ==
    IF i > Len(c) THEN TRUE
    ELSE IF c[i].previous_hash # c[i - 1].hash THEN FALSE
    ELSE valid_from_link_only(c, i + 1)

\* the loop of is_chain_valid from position i (1-based) on
RECURSIVE valid_from(_, _)
valid_from(c, i) ==
    IF i > Len(c) THEN TRUE
    ELSE IF c[i].previous_hash # c[i - 1].hash THEN FALSE
    ELSE IF c[i].hash # hash(c[i]) THEN FALSE
    ELSE valid_from(c, i + 1)

is_chain_valid(c) == valid_from(c, 2)

\* variant: the genesis block gets the proof of an ordinary block
Genesis_proof123(ts) == new_block(<<>>, <<>>, 123, Sentinel, ts)

\* Blockchain.__init__
Genesis(ts) == new_block(<<>>, <<>>, GenesisProof, Sentinel, ts)

\* ------------------------------------------------------------ the machine
Init ==
    \E ts \in Timestamps :
        /\ chain = Genesis(ts).chain
        /\ pending_transactions = Genesis(ts).pending_transactions
        /\ session_state = {"blockchain"}
        /\ appended = <<>>
        /\ op = "__init__"
        /\ err = "none"
        /\ ret = None
        /\ args = <<>>
        /\ hints = <<>>
        /\ sealer = SealerIdle
        /\ validator = ValidatorIdle

AppendTransaction ==
    \E s \in Senders, r \in Recipients, a \in Amounts :
        /\ Len(appended) < MaxAppended
        /\ LET out == new_transaction(chain, pending_transactions, s, r, a) IN
            /\ pending_transactions' = out.pending_transactions
            /\ ret' = out.ret
            /\ appended' = Append(appended, [sender |-> s, recipient |-> r,
                                             amount |-> a])
            /\ hints' = Append(hints, out.ret)
            /\ err' = out.err
        /\ op' = "new_transaction"
        /\ args' = <<s, r, a>>
        /\ UNCHANGED <<chain, session_state>>
        /\ UNCHANGED threads

SealBlock ==
    \E proof \in Proofs, ts \in Timestamps :
        /\ Len(chain) < MaxChain
        /\ LET out == new_block(chain, pending_transactions, proof, None, ts) IN
            /\ chain' = hashed_in_place(out.chain, {Len(chain)})
            /\ pending_transactions' = out.pending_transactions
            /\ err' = out.err
            /\ ret' = out.ret
            /\ hints' = IF out.pending_transactions = pending_transactions
                         THEN hints ELSE <<>>
        /\ op' = "new_block"
        /\ args' = <<proof>>
        /\ UNCHANGED <<session_state, appended>>
        /\ UNCHANGED threads

ValidateChain ==
    /\ ret' = is_chain_valid(chain)
    /\ chain' = hashed_in_place(chain, 2..Len(chain))
    /\ op' = "is_chain_valid"
    /\ args' = <<>>
    /\ err' = "none"
    /\ UNCHANGED <<pending_transactions, session_state, appended, hints>>
    /\ UNCHANGED threads

SimulateTamper ==
    \E index \in {0, 1, Len(chain), Len(chain) + 1} :
        /\ ret' = simulate_tamper(chain, index)
        /\ op' = "simulate_tamper"
        /\ args' = <<index>>
        /\ err' = "none"
        /\ UNCHANGED <<chain, pending_transactions, session_state, appended, hints>>
        /\ UNCHANGED threads

\* variant: the ledger is rebuilt on every run of the script
Rerun_reinit ==
    \E ts \in Timestamps :
        /\ chain' = Genesis(ts).chain
        /\ pending_transactions' = Genesis(ts).pending_transactions
        /\ session_state' = session_state \cup {"blockchain"}
        /\ hints' = <<>>
        /\ ret' = is_chain_valid(chain')
        /\ op' = "rerun"
        /\ args' = <<>>
        /\ err' = "none"
        /\ UNCHANGED appended
        /\ UNCHANGED threads

\* One run of the script down to the validity metric (lines 72-82).
Rerun ==
    \E ts \in Timestamps :
        /\ IF "blockchain" \notin session_state
           THEN /\ chain' = Genesis(ts).chain
                /\ pending_transactions' = Genesis(ts).pending_transactions
                /\ session_state' = session_state \cup {"blockchain"}
                /\ hints' = <<>>
                /\ ret' = is_chain_valid(chain')
           ELSE /\ chain' = hashed_in_place(chain, 2..Len(chain))
                /\ UNCHANGED <<pending_transactions, session_state, hints>>
                /\ ret' = is_chain_valid(chain)
        /\ op' = "rerun"
        /\ args' = <<>>
        /\ err' = "none"
        /\ UNCHANGED appended
        /\ UNCHANGED threads

Next ==
    \/ AppendTransaction
    \/ SealBlock
    \/ ValidateChain
    \/ SimulateTamper
    \/ Rerun

Spec == Init /\ [][Next]_vars

\* ------------------------------------------------ a ledger with no block
\* The attributes as lines 12-13 leave them, before any block exists.
InitEmpty ==
    /\ chain = <<>>
    /\ pending_transactions = <<>>
    /\ session_state = {"blockchain"}
    /\ appended = <<>>
    /\ op = "__init__"
    /\ err = "none"
    /\ ret = None
    /\ args = <<>>
    /\ hints = <<>>
    /\ sealer = SealerIdle
    /\ validator = ValidatorIdle

SpecEmpty == InitEmpty /\ [][Next]_vars

\* ------------------------------------------------------ the Streamlit UI
\* what the form widgets can hold: text inputs (empty or not) and a number
\* input with min_value=0.0
FormSenders == {"", "A", "C"}
FormRecipients == {"", "B"}
FormAmounts == {<<"float", 0>>, <<"float", 10>>, <<"float", 25>>}
FormProof == 123

\* variant: the amount is not looked at
FormAccepted_any_amount(s, r, a) == s # "" /\ r # ""

\* `sender and recipient and amount > 0` of line 91
FormAccepted(s, r, a) == s # "" /\ r # "" /\ a[2] > 0

\* One run of the script with the form submitted (lines 72-94).
Submit ==
    \E s \in FormSenders, r \in FormRecipients, a \in FormAmounts,
       ts \in Timestamps :
        /\ FormAccepted(s, r, a) => Len(chain) < MaxChain
        /\ "blockchain" \in session_state
        /\ IF FormAccepted(s, r, a)
           THEN LET t == new_transaction(chain, pending_transactions, s, r, a)
                    b == new_block(chain, t.pending_transactions, FormProof,
                                   None, ts)
                IN /\ chain' = hashed_in_place(b.chain, (2..Len(chain)) \cup {Len(chain)})
                   /\ pending_transactions' = b.pending_transactions
                   /\ err' = b.err
                   /\ ret' = b.ret
                   /\ hints' = <<>>
                   /\ appended' = Append(appended,
                                         [sender |-> s, recipient |-> r,
                                          amount |-> a])
           ELSE /\ err' = "none"
                /\ ret' = None
                /\ chain' = hashed_in_place(chain, 2..Len(chain))
                /\ UNCHANGED <<pending_transactions, hints, appended>>
        /\ op' = "submit"
        /\ args' = <<s, r, a>>
        /\ UNCHANGED session_state
        /\ UNCHANGED threads

\* One run of the script with the tamper button pressed (lines 98-111).
TamperButton ==
    /\ Len(chain) > 1
    /\ \E tamper_index \in 2..Len(chain) :
        /\ ret' = simulate_tamper(chain, tamper_index)
        /\ args' = <<tamper_index>>
    /\ op' = "simulate_tamper"
    /\ err' = "none"
    /\ UNCHANGED <<chain, pending_transactions, session_state, appended, hints>>
    /\ UNCHANGED threads

NextUI ==
    \/ Submit
    \/ TamperButton
    \/ Rerun

SpecUI == Init /\ [][NextUI]_vars

\* --------------------------------------------------------------- threads
\* new_block(proof), is_chain_valid() and new_transaction(...) called on one
\* ledger from three threads with no lock: the statements of new_block and
\* the iterations of is_chain_valid are steps of their own.

\* variant: the block dict is put in the chain as soon as it is built
SealSnapshot_publish ==
    \E proof \in Proofs, ts \in Timestamps :
        /\ sealer.pc = "idle"
        /\ Len(chain) < MaxChain
        /\ chain # <<>>
        /\ LET block == candidate(chain, pending_transactions, proof, None, ts)
           IN /\ sealer' = [pc |-> "l27", block |-> block]
              /\ chain' = Append(chain,
                    [k \in (DOMAIN block) \cup {"hash"} |->
                        IF k = "hash" THEN None ELSE block[k]])
        /\ UNCHANGED <<pending_transactions, session_state, appended, op,
                       err, ret, args, hints, validator>>

\* lines 19-26: the snapshot of the buffer and the block dict built from it
SealSnapshot ==
    \E proof \in Proofs, ts \in Timestamps :
        /\ sealer.pc = "idle"
        /\ Len(chain) < MaxChain
        /\ chain # <<>>
        /\ sealer' = [pc |-> "l27",
                      block |-> candidate(chain, pending_transactions, proof,
                                          None, ts)]
        /\ UNCHANGED <<chain, pending_transactions, session_state, appended,
                       op, err, ret, args, hints, validator>>

\* line 27: self.pending_transactions = []
SealClear ==
    /\ sealer.pc = "l27"
    /\ pending_transactions' = <<>>
    /\ hints' = <<>>
    /\ sealer' = [sealer EXCEPT !.pc = "l28"]
    /\ UNCHANGED <<chain, session_state, appended, op, err, ret, args,
                   validator>>

\* lines 28-30: the hash is stored in the dict, then the dict is appended
SealAppend ==
    /\ sealer.pc = "l28"
    /\ IF JsonEncodable(sealer.block)
       THEN /\ chain' = Append(chain, store_hash(sealer.block))
            /\ ret' = store_hash(sealer.block)
            /\ err' = "none"
       ELSE /\ chain' = chain
            /\ ret' = None
            /\ err' = "TypeError"
    /\ op' = "new_block"
    /\ args' = <<sealer.block.proof>>
    /\ sealer' = SealerIdle
    /\ UNCHANGED <<pending_transactions, session_state, appended, hints,
                   validator>>

\* line 56: range(1, len(self.chain)) is evaluated once
ValidStart ==
    /\ validator.pc = "idle"
    /\ validator' = [pc |-> "loop", i |-> 2, n |-> Len(chain)]
    /\ UNCHANGED <<chain, pending_transactions, session_state, appended, op,
                   err, ret, args, hints, sealer>>

\* lines 57-63: one iteration of the loop, or the return after the last one
ValidIter ==
    /\ validator.pc = "loop"
    /\ LET i == validator.i
           done == i > validator.n
           bad == \/ chain[i].previous_hash # chain[i - 1].hash
                  \/ chain[i].hash # hash(chain[i])
       IN IF done \/ bad
          THEN /\ validator' = ValidatorIdle
               /\ ret' = done
               /\ op' = "is_chain_valid"
               /\ args' = <<>>
               /\ err' = "none"
          ELSE /\ validator' = [validator EXCEPT !.i = i + 1]
               /\ UNCHANGED <<op, err, ret, args>>
    /\ UNCHANGED <<chain, pending_transactions, session_state, appended,
                   hints, sealer>>

\* new_transaction in its thread: list.append is one step
ThreadAppend ==
    /\ Len(appended) < MaxThreadAppended
    /\ AppendTransaction

NextThreads ==
    \/ ThreadAppend
    \/ SealSnapshot
    \/ SealClear
    \/ SealAppend
    \/ ValidStart
    \/ ValidIter

SpecThreads == Init /\ [][NextThreads]_vars

\* ------------------------------------------- the caller of new_block
\* amounts a caller writes into a block it holds
WrittenAmounts == {<<"float", 999>>}

\* The caller of new_block writes an amount into a transaction of the block
\* it was handed.  Line 29 appends the dict `block` to the chain and line 30
\* returns that same dict, so the write lands in the chain's last block.
MutateReturned ==
    /\ op = "new_block"
    /\ err = "none"
    /\ \E j \in 1..Len(ret.transactions), a \in WrittenAmounts :
        /\ ret' = [ret EXCEPT !.transactions[j].amount = a]
        /\ chain' = [chain EXCEPT ![Len(chain)] = ret']
    /\ op' = "mutate_returned"
    /\ args' = <<>>
    /\ err' = "none"
    /\ UNCHANGED <<pending_transactions, session_state, appended, hints>>
    /\ UNCHANGED threads

NextReturned ==
    \/ Next
    \/ MutateReturned

SpecReturned == Init /\ [][NextReturned]_vars

\* ------------------------------------------------------------ properties
\* the step just taken was a new_block call that returned / that raised
SealReturned == op' = "new_block" /\ err' = "none"
SealRaised == op' = "new_block" /\ err' # "none"

\* the transactions of all blocks in chain order
RECURSIVE Sealed(_)
Sealed(c) ==
    IF c = <<>> THEN <<>>
    ELSE Sealed(SubSeq(c, 1, Len(c) - 1)) \o c[Len(c)].transactions

\* an external write of value v to field f of the block at position i
Tamper(c, i, f, v) == [c EXCEPT ![i][f] = v]

\* values an external write can put in a field
FieldValues(c, f) ==
    CASE f = "index" -> 0..(Len(c) + 1)
      [] f = "timestamp" -> Timestamps \cup {0}
      [] f = "proof" -> Proofs \cup {GenesisProof, 0}
      [] f = "previous_hash" ->
            {Sentinel, <<"0">>} \cup {c[j].hash : j \in 1..Len(c)}
      [] f = "transactions" ->
            {<<>>} \cup
            {<<[sender |-> s, recipient |-> r, amount |-> a]>> :
                s \in Senders \cup Recipients, r \in Senders \cup Recipients,
                a \in {x \in Amounts : AmountEncodable(x)} \cup {<<"float", 0>>}}

BlockFields == {"index", "timestamp", "transactions", "proof", "previous_hash"}

\* C1: on a ledger driven by new_transaction and new_block(proof) calls
\* alone, is_chain_valid returns true whenever it is called, in particular
\* after every seal, whatever the proofs were.
C1_ValidAfterEverySeal ==
    /\ is_chain_valid(chain)
    /\ op \in {"is_chain_valid", "rerun"} => ret = TRUE

C1_Witness ==
    /\ op = "is_chain_valid"
    /\ ret = TRUE
    /\ Len(chain) >= 3
    /\ \E i \in 2..Len(chain) : chain[i].transactions # <<>>
    /\ \E i, j \in 2..Len(chain) : chain[i].proof # chain[j].proof

\* C2 (as stated): writing a different value to any one field of any block
\* that is not the last one, the genesis block included, without
\* recomputing the stored hash, makes is_chain_valid return false.
C2_TamperDetected ==
    \A i \in 1..(Len(chain) - 1) : \A f \in BlockFields :
        \A v \in FieldValues(chain, f) :
            v # chain[i][f] => ~is_chain_valid(Tamper(chain, i, f, v))

\* C3 (as stated): every transaction ever appended is in exactly one place,
\* once: the blocks' transactions followed by the pending_transactions buffer are the
\* appended transactions, in the order of the calls.
C3_NoTransactionLostOrDuplicated ==
    Sealed(chain) \o pending_transactions = appended

\* C4: a new_block call that returns leaves pending_transactions empty and its block
\* holds exactly the transactions that were pending_transactions before the call, in the
\* same order; the transactions of a block already in the chain never
\* change, so a transaction appended later never shows up in it.
C4_PendingBufferAtomicity ==
    [][/\ SealReturned =>
            /\ pending_transactions' = <<>>
            /\ last_block(chain').transactions = pending_transactions
            /\ ret'.transactions = pending_transactions
       /\ \A i \in 1..Len(chain) :
            /\ i <= Len(chain')
            /\ chain'[i].transactions = chain[i].transactions]_vars

C4_Witness ==
    /\ op = "new_transaction"
    /\ Len(chain) >= 2
    /\ Len(last_block(chain).transactions) = 2
    /\ last_block(chain).transactions[1] # last_block(chain).transactions[2]
    /\ Len(pending_transactions) = 1

\* C5: every block after the first has previous_hash equal to the stored
\* hash of the block before it.
C5_HashChainLinkage ==
    \A i \in 2..Len(chain) : chain[i].previous_hash = chain[i - 1].hash

C5_Witness ==
    /\ Len(chain) >= 3
    /\ chain[3].previous_hash = chain[2].hash
    /\ chain[2].previous_hash # Sentinel

\* C6: every block, the genesis block included, stores the hash of its own
\* fields, the hash field excluded.
C6_SelfHash ==
    \A i \in 1..Len(chain) : chain[i].hash = hash(chain[i])

C6_Witness ==
    /\ Len(chain) >= 3
    /\ chain[3].transactions # <<>>
    /\ chain[3].hash = hash(chain[3])
    /\ chain[1].hash = hash(chain[1])

\* C7: the block at position i has index i.
C7_IndexIsPosition ==
    \A i \in 1..Len(chain) : chain[i].index = i

C7_Witness ==
    /\ Len(chain) >= 3
    /\ chain[3].index = 3

\* C8: a fresh ledger is one genesis block (index 1, proof 100,
\* previous_hash the sentinel, no transactions, a stored hash that is its
\* recomputed hash) and an empty pending_transactions buffer; afterwards the chain is
\* never empty and its first block stays that genesis block.
C8_Genesis ==
    /\ (Len(chain) = 1 /\ pending_transactions = <<>>)
    /\ [](/\ Len(chain) >= 1
          /\ chain[1].index = 1
          /\ chain[1].proof = GenesisProof
          /\ chain[1].previous_hash = Sentinel
          /\ chain[1].transactions = <<>>
          /\ chain[1].hash = hash(chain[1]))
    /\ [][Len(chain') >= 1 /\ chain'[1] = chain[1]]_vars

C8_Witness ==
    /\ op = "rerun"
    /\ Len(chain) >= 3
    /\ chain[1].proof = GenesisProof
    /\ chain[1].previous_hash = Sentinel

\* C9: a new_block call that returns makes the chain one block longer, one
\* that raises leaves it as it was; no step of any operation (the calls, the
\* probe, the validation, a rerun of the script) changes or moves a block
\* already in the chain, or shortens the chain.
C9_AppendOnly ==
    [][/\ Len(chain') >= Len(chain)
       /\ \A i \in 1..Len(chain) : chain'[i] = chain[i]
       /\ SealReturned => Len(chain') = Len(chain) + 1
       /\ ~SealReturned => chain' = chain]_vars

C9_Witness ==
    /\ op = "rerun"
    /\ Len(chain) >= 3
    /\ pending_transactions # <<>>

\* C10 (as stated): a new_block call that raises leaves chain and pending_transactions as
\* they were before the call; otherwise one block is appended and pending_transactions is
\* emptied.
C10_SealAllOrNothing ==
    [][/\ SealRaised => (chain' = chain /\ pending_transactions' = pending_transactions)
       /\ SealReturned =>
            (Len(chain') = Len(chain) + 1 /\ pending_transactions' = <<>>)]_vars

\* C12: a new_transaction call appends exactly the transaction made of its
\* arguments at the end of the buffer, the earlier entries keeping their
\* places, leaves the chain alone and returns the last block's index plus 1.
C12_AppendTransactionEffect ==
    [][op' = "new_transaction" =>
        /\ pending_transactions' =
              Append(pending_transactions,
                     [sender |-> args'[1], recipient |-> args'[2],
                      amount |-> args'[3]])
        /\ chain' = chain
        /\ ret' = chain[Len(chain)].index + 1]_vars

C12_Witness ==
    /\ op = "new_transaction"
    /\ Len(chain) >= 2
    /\ Len(pending_transactions) = 2
    /\ pending_transactions[1] # pending_transactions[2]
    /\ ret = 3

\* C13: simulate_tamper(index) returns true exactly when
\* 1 <= index <= len(chain); it leaves chain and pending buffer as they
\* were, so the validity of the chain is the same before and after.
C13_ProbeIsPureBoundsCheck ==
    [][op' = "simulate_tamper" =>
        /\ ret' = (1 <= args'[1] /\ args'[1] <= Len(chain))
        /\ chain' = chain
        /\ pending_transactions' = pending_transactions
        /\ is_chain_valid(chain') = is_chain_valid(chain)]_vars

C13_Witness ==
    /\ op = "simulate_tamper"
    /\ Len(chain) >= 2
    /\ args[1] = Len(chain) + 1
    /\ ret = FALSE
    /\ pending_transactions # <<>>

C11_ReturnedBlockIsACopy ==
    [][op' = "mutate_returned" =>
        (chain' = chain /\ is_chain_valid(chain'))]_vars

\* C15: new_block without a previous_hash on an empty chain raises instead
\* of appending a block, and leaves chain and pending buffer as they were.
C15_SealOnEmptyChainFails ==
    [][(op' = "new_block" /\ chain = <<>>) =>
        /\ err' = "IndexError"
        /\ chain' = <<>>
        /\ pending_transactions' = pending_transactions]_vars

C15_Witness ==
    /\ op = "new_block"
    /\ err = "IndexError"
    /\ chain = <<>>
    /\ Len(pending_transactions) >= 2

\* C16: in the UI, a submission with an empty sender, an empty recipient or
\* an amount that is not positive changes neither chain nor pending buffer;
\* any other submission seals one block holding exactly the submitted
\* transaction.  So the buffer is empty between submissions and every block
\* after the genesis block holds one transaction with non-empty sender and
\* recipient and an amount that is not negative.
C16_FormGuardAndOneBlockPerSubmission ==
    /\ [](/\ pending_transactions = <<>>
          /\ \A i \in 2..Len(chain) :
                /\ Len(chain[i].transactions) = 1
                /\ chain[i].transactions[1].sender # ""
                /\ chain[i].transactions[1].recipient # ""
                /\ chain[i].transactions[1].amount[2] >= 0)
    /\ [][op' = "submit" =>
            IF args'[1] = "" \/ args'[2] = "" \/ ~(args'[3][2] > 0)
            THEN chain' = chain /\ pending_transactions' = pending_transactions
            ELSE /\ chain' = Append(chain, last_block(chain'))
                 /\ last_block(chain').transactions =
                       <<[sender |-> args'[1], recipient |-> args'[2],
                          amount |-> args'[3]]>>
                 /\ pending_transactions' = <<>>]_vars

C16_Witness ==
    /\ op = "submit"
    /\ args[3] = <<"float", 0>>
    /\ args[1] # ""
    /\ args[2] # ""
    /\ Len(chain) >= 3
    /\ chain[2].transactions # chain[3].transactions

\* values an external write can put in the hash field
HashValues(c) == {Sentinel, <<"0">>} \cup {c[j].hash : j \in 1..Len(c)}

\* a few values an external write can put in each field
WriteValues(c, f) ==
    CASE f = "index" -> {0, Len(c)}
      [] f = "timestamp" -> {0}
      [] f = "proof" -> {0, GenesisProof}
      [] f = "previous_hash" -> {Sentinel, c[1].hash}
      [] f = "transactions" ->
            {<<>>, <<[sender |-> "B", recipient |-> "A",
                      amount |-> <<"float", 0>>]>>}
      [] f = "hash" -> HashValues(c)

\* the chains one external write away from c, the hash field included
OneWriteAway(c) ==
    UNION {{Tamper(c, i, f, v) : v \in WriteValues(c, f)} :
              <<i, f>> \in (1..Len(c)) \X (BlockFields \cup {"hash"})}

\* both checks of is_chain_valid pass for every block from the second on
BothChecksPass(c) ==
    \A i \in 2..Len(c) :
        /\ c[i].previous_hash = c[i - 1].hash
        /\ hash(c[i]) = c[i].hash

\* C17: is_chain_valid returns true exactly when every block from the second
\* to the last passes both checks (link to the stored hash of the block
\* before, stored hash equal to the recomputed one); it returns true on a
\* chain of one block.  Checked on the ledger's chain and, when
\* is_chain_valid has just run, on the chains one external write away from
\* it.
C17_ValidIffAllChecksPass ==
    /\ is_chain_valid(chain) = BothChecksPass(chain)
    /\ op = "is_chain_valid" =>
        /\ ret = BothChecksPass(chain)
        /\ \A c \in OneWriteAway(chain) :
              is_chain_valid(c) = BothChecksPass(c)
        /\ Len(chain) = 1 => \A c \in OneWriteAway(chain) : is_chain_valid(c)

C17_Witness ==
    /\ op = "is_chain_valid"
    /\ ret = TRUE
    /\ Len(chain) >= 3
    /\ ~is_chain_valid(Tamper(chain, 3, "proof", 0))
    /\ ~is_chain_valid(Tamper(chain, 2, "hash", Sentinel))
    /\ is_chain_valid(Tamper(chain, 1, "proof", 0))

\* C18: Blockchain.hash does not depend on the block's hash field: a stored
\* block hashes to the same digest whatever its hash field holds, which is
\* the digest of the block without that field and the value stored at seal
\* time; and the calls of hash made by is_chain_valid, by new_block and by a
\* run of the script leave the blocks they are given as they were.
C18_HashIgnoresAndKeepsHashField ==
    /\ [](\A i \in 1..Len(chain) :
            /\ "hash" \in DOMAIN chain[i]
            /\ hash(chain[i]) = hash(pop_hash(chain[i]))
            /\ hash(chain[i]) = chain[i].hash
            /\ \A h \in HashValues(chain) \cup {None} :
                  hash([chain[i] EXCEPT !.hash = h]) = chain[i].hash)
    /\ [][op' \in {"is_chain_valid", "new_block", "rerun"} =>
            \A i \in 1..Len(chain) : chain'[i] = chain[i]]_vars

C18_Witness ==
    /\ op = "is_chain_valid"
    /\ Len(chain) >= 3
    /\ chain[3].transactions # <<>>
    /\ hash([chain[3] EXCEPT !.hash = Sentinel]) = chain[3].hash

\* an appended transaction that is neither in the buffer nor in a block
Lost(tx) ==
    /\ \A j \in 1..Len(pending_transactions) : pending_transactions[j] # tx
    /\ \A i \in 1..Len(chain) :
          \A j \in 1..Len(chain[i].transactions) :
              chain[i].transactions[j] # tx

\* C14 (as stated, second half): when new_block and new_transaction run as
\* mutually exclusive atomic steps, no appended transaction is ever neither
\* in the buffer nor in a block.
C14_NoLossWhenMutuallyExclusive ==
    \A k \in 1..Len(appended) : ~Lost(appended[k])

\* C19: an is_chain_valid call that overlaps a new_block call on an
\* untampered ledger returns true: a block enters the chain in one step,
\* with its previous_hash and its hash set, so every block the validator can
\* read passes both checks.
C19_ConcurrentValidationNeverFails ==
    /\ op = "is_chain_valid" => ret = TRUE
    /\ \A i \in 1..Len(chain) : chain[i].hash = hash(chain[i])
    /\ \A i \in 2..Len(chain) : chain[i].previous_hash = chain[i - 1].hash

C19_Witness ==
    /\ validator.pc = "loop"
    /\ validator.i > 2
    /\ validator.n < Len(chain)
    /\ op = "new_block"
    /\ err = "none"

====
